---------------------------- MODULE Spec2Model ----------------------------
(***************************************************************************)
(* A model of the Zania Q&A API: the question/document loaders             *)
(* (app/document_loader.py), the answering loop (app/rag_chain.py) and the *)
(* three HTTP handlers (app/main.py).                                      *)
(*                                                                         *)
(* Text is modelled as sequences of one-character strings wherever the     *)
(* code inspects characters (file names, suffixes); a document's text is a *)
(* sequence of tokens, one token per piece the splitter turns into a chunk.*)
(***************************************************************************)
EXTENDS Integers, Sequences, FiniteSets, TLC

VARIABLES
    ldPath,     \* loader harness: the path handed to load_questions
    ldFile,     \* loader harness: what is stored at that path (or NoFile)
    ldOut,      \* loader harness: the outcome of the call (or NotRun)
    table,      \* the rows of langchain_chat_histories, in insertion (id) order
    chat,       \* POST /chat: each turn's request, position and response
    hist,       \* GET /chat/{session_id}: the call's position and response
    returned,   \* the session ids clients received in 200 responses to /chat
    conns,      \* the database connections that are open
    aq,         \* answering harness: the state of one answer_questions call
    qa,         \* POST /qa: each request's frame
    tmpfs,      \* the temporary directory: path -> file
    collection  \* Chroma: the default collection of the in-process client

ldVars   == <<ldPath, ldFile, ldOut>>
chatVars == <<table, chat, hist, returned, conns>>
qaVars   == <<qa, tmpfs, collection>>
vars     == <<ldPath, ldFile, ldOut, table, chat, hist, returned, conns, aq,
              qa, tmpfs, collection>>

(***************************************************************************)
(* Characters and paths                                                    *)
(***************************************************************************)

Max(S) == CHOOSE m \in S : \A k \in S : k <= m

\* str.lower() on the characters the model uses
Lower(c) ==
    CASE c = "J" -> "j"
      [] c = "S" -> "s"
      [] c = "O" -> "o"
      [] c = "N" -> "n"
      [] c = "T" -> "t"
      [] c = "X" -> "x"
      [] c = "P" -> "p"
      [] c = "D" -> "d"
      [] c = "F" -> "f"
      [] OTHER -> c

LowerStr(s) == IF s = <<>> THEN <<>> ELSE [i \in 1..Len(s) |-> Lower(s[i])]

\* str.rfind(c), 1-based; 0 when c does not occur
RFind(s, c) ==
    LET I == {i \in 1..Len(s) : s[i] = c}
    IN  IF I = {} THEN 0 ELSE Max(I)

\* pathlib: Path(p).name, the last component of the path
PathName(p) == SubSeq(p, RFind(p, "/") + 1, Len(p))

\* pathlib: Path(p).suffix -- name[i:] when 0 < i < len(name) - 1 (0-based)
PathSuffix(p) ==
    LET name == PathName(p)
        i    == RFind(name, ".")
    IN  IF i > 1 /\ i < Len(name) THEN SubSeq(name, i, Len(name)) ELSE <<>>

\* os.path.splitext(p)[1]: from the last dot of the last component, unless only
\* dots precede it there
SplitExt(p) ==
    LET sep == RFind(p, "/")
        dot == RFind(p, ".")
    IN  IF dot > sep /\ (\E k \in (sep + 1)..(dot - 1) : p[k] # ".")
        THEN SubSeq(p, dot, Len(p))
        ELSE <<>>

DotJson == <<".", "j", "s", "o", "n">>
DotPdf  == <<".", "p", "d", "f">>

(***************************************************************************)
(* Files                                                                   *)
(*                                                                         *)
(* A file holds JSON text, a PDF, or bytes that are neither.  A JSON value *)
(* is its top-level kind and, for a list, its items.  An item is a string  *)
(* (val), an object (hasq: it has the key "question", whose value is val), *)
(* or something else (a number).                                           *)
(***************************************************************************)

NoFile == [fmt |-> "absent"]
NotRun == [exc |-> "notrun"]

JStr(v)  == [kind |-> "str",  hasq |-> FALSE, val |-> v]
JObjQ(v) == [kind |-> "dict", hasq |-> TRUE,  val |-> v]
JObj(v)  == [kind |-> "dict", hasq |-> FALSE, val |-> v]
JNum(v)  == [kind |-> "num",  hasq |-> FALSE, val |-> v]

JsonFile(top, items) ==
    [fmt |-> "json", top |-> top, items |-> items, pages |-> <<>>]
PdfFile(pages) ==
    [fmt |-> "pdf", top |-> "none", items |-> <<>>, pages |-> pages]
Garbage == [fmt |-> "garbage", top |-> "none", items |-> <<>>, pages |-> <<>>]

\* what a call returns or raises; opened: whether open(file_path) was executed
\* detail: what the exception's message names
Returned(v) == [exc |-> "none", val |-> v, opened |-> TRUE, detail |-> <<>>]
Raised(e, detail, opened) ==
    [exc |-> e, val |-> <<>>, opened |-> opened, detail |-> detail]

(***************************************************************************)
(* document_loader.load_questions_json / load_questions                    *)
(***************************************************************************)

\* a plausible slip: every object contributes, with or without the key
RECURSIVE CollectQuestions_anydict(_, _)
CollectQuestions_anydict(items, questions) ==
    IF items = <<>> THEN questions
    ELSE LET item == Head(items)
         IN  CollectQuestions_anydict(
                 Tail(items),
                 IF item.kind \in {"str", "dict"} THEN Append(questions, item.val)
                 ELSE questions)

\* the for-loop of load_questions_json over the list's items
RECURSIVE CollectQuestions(_, _)
CollectQuestions(items, questions) ==
    IF items = <<>> THEN questions
    ELSE LET item == Head(items)
         IN  CollectQuestions(
                 Tail(items),
                 IF item.kind = "str" THEN Append(questions, item.val)
                 ELSE IF item.kind = "dict" /\ item.hasq
                      THEN Append(questions, item.val)
                      ELSE questions)

load_questions_json(file) ==
    IF file = NoFile THEN Raised("FileNotFoundError", <<>>, TRUE)
    ELSE IF file.fmt # "json" THEN Raised("JSONDecodeError", <<>>, TRUE)
    ELSE IF file.top = "list" THEN Returned(CollectQuestions(file.items, <<>>))
    ELSE Returned(<<>>)

\* a plausible slip: the extension guard is missing
load_questions_unguarded(file_path, file) == load_questions_json(file)

load_questions(file_path, file) ==
    LET suffix == LowerStr(PathSuffix(file_path))
    IN  IF suffix # DotJson
        THEN Raised("ValueError", suffix, FALSE)
        ELSE load_questions_json(file)

(***************************************************************************)
(* Loader harness: load_questions applied to a path and a file             *)
(***************************************************************************)

MaxItems == 3

QVals == {"q1", "q2"}

JItems == {JStr(v) : v \in QVals} \cup {JObjQ(v) : v \in QVals}
              \cup {JObj("x"), JNum("7")}

RECURSIVE SeqsUpTo(_, _)
SeqsUpTo(S, n) ==
    IF n = 0 THEN {<<>>}
    ELSE LET Shorter == SeqsUpTo(S, n - 1)
         IN  Shorter \cup {Append(s, x) : s \in Shorter, x \in S}

LdFiles ==
    {JsonFile("list", items) : items \in SeqsUpTo(JItems, MaxItems)}
        \cup {JsonFile("dict", <<>>), JsonFile("str", <<>>), JsonFile("num", <<>>),
              PdfFile(<<>>), Garbage, NoFile}

LdStems ==
    { <<>>,
      <<"q">>,
      <<"/", "t", "/", "q">>,
      <<"a", ".", "j", "s", "o", "n", "/", "q">>,
      <<"q", ".", "j", "s", "o", "n">> }

LdExts ==
    { <<>>,
      DotJson,
      <<".", "J", "S", "O", "N">>,
      <<".", "J", "s", "o", "n">>,
      <<".", "t", "x", "t">>,
      <<".", "j", "s", "o">>,
      <<".", "j", "s", "o", "n", "x">>,
      <<"j", "s", "o", "n">>,
      <<".">>,
      DotPdf }

LdPaths == {stem \o ext : stem \in LdStems, ext \in LdExts}

LdIdle ==
    /\ ldPath = <<>>
    /\ ldFile = NoFile
    /\ ldOut = NotRun

LdCall ==
    /\ ldOut = NotRun
    /\ ldOut' = load_questions(ldPath, ldFile)
    /\ UNCHANGED <<ldPath, ldFile>>
    /\ UNCHANGED <<chatVars, aq, qaVars>>

(***************************************************************************)
(* rag_chain.answer_questions                                              *)
(*                                                                         *)
(* The loop's state: the questions, the position i of the question whose   *)
(* invocation is awaited, the answers dict, and the log of invocations     *)
(* made (calls, for the claims only).  status is "running" while an        *)
(* invocation is awaited, "returned" after the return, "raised" when an    *)
(* invocation's exception left the function.                               *)
(***************************************************************************)

MaxQ == 3

\* what rag_chain.ainvoke(question) can produce: StrOutputParser hands on the
\* model's text, which may be empty
Answers == {"a1", "a2", ""}

Produced(text) == [raised |-> FALSE, text |-> text]
Failed == [raised |-> TRUE, text |-> ""]

ChainResults == {Produced(a) : a \in Answers} \cup {Failed}

EmptyDict == [k \in {} |-> ""]

\* a plausible slip: an answer already present is kept
DictSet_keepfirst(d, k, v) ==
    [x \in DOMAIN d \cup {k} |-> IF x \in DOMAIN d THEN d[x] ELSE v]

\* answers[question] = answer
DictSet(d, k, v) == [x \in DOMAIN d \cup {k} |-> IF x = k THEN v ELSE d[x]]

\* answers = {} and the for-loop is entered
answer_questions_start(questions) ==
    [questions |-> questions, i |-> 1, answers |-> EmptyDict, calls |-> <<>>,
     status |-> IF questions = <<>> THEN "returned" ELSE "running"]

\* a plausible slip: a failed invocation is tried again
answer_questions_step_retry(st, result) ==
    LET question == st.questions[st.i]
        logged   == Append(st.calls, [question |-> question, result |-> result])
    IN  IF result.raised
        THEN [st EXCEPT !.calls = logged,
                        !.status = IF Len(logged) > Len(st.questions)
                                   THEN "raised" ELSE "running"]
        ELSE [st EXCEPT !.calls = logged,
                        !.answers = DictSet(st.answers, question, result.text),
                        !.i = st.i + 1,
                        !.status = IF st.i = Len(st.questions)
                                   THEN "returned" ELSE "running"]

\* one iteration: the awaited ainvoke(question) completes with result
answer_questions_step(st, result) ==
    LET question == st.questions[st.i]
        logged   == Append(st.calls, [question |-> question, result |-> result])
    IN  IF result.raised
        THEN [st EXCEPT !.calls = logged, !.status = "raised"]
        ELSE [st EXCEPT !.calls = logged,
                        !.answers = DictSet(st.answers, question, result.text),
                        !.i = st.i + 1,
                        !.status = IF st.i = Len(st.questions)
                                   THEN "returned" ELSE "running"]

NotCalled ==
    [questions |-> <<>>, i |-> 0, answers |-> EmptyDict, calls |-> <<>>,
     status |-> "notcalled"]

AqIdle == aq = NotCalled

AqInvoke ==
    /\ aq.status = "running"
    /\ \E result \in ChainResults : aq' = answer_questions_step(aq, result)
    /\ UNCHANGED <<ldVars, chatVars, qaVars>>

(***************************************************************************)
(* The chat endpoints (app/main.py: chat, get_history) over the            *)
(* langchain_chat_histories table                                          *)
(*                                                                         *)
(* A handler's frame lives until its response is sent: the step that       *)
(* leaves the handler drops the frame and keeps only what the client got   *)
(* (the session ids returned with a 200).                                  *)
(***************************************************************************)

NChat == 2      \* POST /chat turns, possibly concurrent

ChatOps == 1..NChat

Messages == {"hi", "yo"}

\* str(uuid.uuid4()) of turn t: a fresh UUID string
GenId(t) == "uuid4-" \o ToString(t)

\* a UUID string a client made up itself
ClientUuid == "uuid-c"

\* the strings uuid.UUID() parses
UuidStrings == {ClientUuid} \cup {GenId(t) : t \in ChatOps}

\* session ids a client can send: empty, not a UUID, a UUID of its own, or an
\* id an earlier response carried
ClientIds == {"", "unknown-id", ClientUuid} \cup returned

HumanMessage(content) == [type |-> "human", content |-> content]
AIMessage(content)    == [type |-> "ai", content |-> content]

\* one row of the table; op is the turn that inserted it (for the claims only)
Row(session_id, msg, op) ==
    [session_id |-> session_id, type |-> msg.type, content |-> msg.content,
     op |-> op]

\* PostgresChatMessageHistory.__init__ raises ValueError unless the session id
\* parses as a UUID
HistoryAccepts(session_id) == session_id \in UuidStrings

\* aget_messages: the session's rows, ordered by id
SessionRows(session_id) ==
    SelectSeq(table, LAMBDA r : r.session_id = session_id)

\* MessageOut of one stored message (the list comprehension of get_history)
MessageOut(r) ==
    [role |-> IF r.type = "human" THEN "user" ELSE "assistant",
     content |-> r.content]

MessagesOut(rows) ==
    IF rows = <<>> THEN <<>> ELSE [i \in 1..Len(rows) |-> MessageOut(rows[i])]

\* a handler that holds no connection
NoConn == 0

\* AsyncConnection.connect(DATABASE_URL) makes a new connection on every
\* call; a connection is named after the call that opened it: the turn's
\* number for POST /chat, the number after the last turn for the GET call in
\* progress
ChatConn(t) == t
GetConn     == NChat + 1

\* await conn.close()
Close(open, c) == open \ {c}

\* conn: the connection the handler holds (NoConn outside the async with)
IdleChat ==
    [pc |-> "idle", message |-> "", has_sid |-> FALSE, req_sid |-> "",
     session_id |-> "", exc |-> "none", conn |-> NoConn, response |-> ""]

\* stored: the session's rows when the handler ran (for the claims only)
IdleGet ==
    [pc |-> "idle", session_id |-> "", exc |-> "none", conn |-> NoConn,
     messages |-> <<>>, stored |-> <<>>]

ChatIdle ==
    /\ table = <<>>
    /\ chat = [t \in ChatOps |-> IdleChat]
    /\ hist = IdleGet
    /\ returned = {}
    /\ conns = {}

\* HTTP status of an operation that is about to respond
Status(op) ==
    CASE op.exc = "none" -> 200
      [] op.exc = "HTTP404" -> 404
      [] op.exc = "HTTP400" -> 400
      [] OTHER -> 500

\* a plausible slip: a supplied id is ignored
ChooseSessionId_fresh(has_sid, req_sid, t) == GenId(t)

\* main.py:35 -- session_id = request.session_id or str(uuid.uuid4())
ChooseSessionId(has_sid, req_sid, t) ==
    IF has_sid /\ req_sid # "" THEN req_sid ELSE GenId(t)

\* a request arrives: the handler fixes the session id and enters
\* async with get_async_connection(), where AsyncConnection.connect may fail
ChatReceive(t) ==
    /\ chat[t].pc = "idle"
    /\ \E m \in Messages, has \in BOOLEAN, sid \in ClientIds :
          /\ has \/ sid = ""
          /\ LET started == [chat[t] EXCEPT !.message = m, !.has_sid = has,
                                !.req_sid = sid,
                                !.session_id = ChooseSessionId(has, sid, t)]
             IN  \/ /\ chat' = [chat EXCEPT ![t] =
                           [started EXCEPT !.pc = "addUser",
                                           !.conn = ChatConn(t)]]
                    /\ conns' = conns \cup {ChatConn(t)}
                 \/ /\ chat' = [chat EXCEPT ![t] = [IdleChat EXCEPT !.pc = "done"]]
                    /\ UNCHANGED conns
    /\ UNCHANGED <<table, hist, returned>>
    /\ UNCHANGED <<ldVars, aq, qaVars>>

\* a plausible slip: the reply is recorded first
ChatAddUser_aifirst(t) ==
    /\ chat[t].pc = "addUser"
    /\ HistoryAccepts(chat[t].session_id)
    /\ table' = Append(table,
           Row(chat[t].session_id, AIMessage("Echo: " \o chat[t].message), t))
    /\ chat' = [chat EXCEPT ![t] = [@ EXCEPT !.pc = "addAi"]]
    /\ UNCHANGED <<hist, returned, conns>>
    /\ UNCHANGED <<ldVars, aq, qaVars>>

\* a plausible slip: a per-session lock -- a turn waits while another turn of
\* its session is between its two writes
ChatAddUser_locked(t) ==
    /\ chat[t].pc = "addUser"
    /\ \A u \in ChatOps \ {t} :
          ~(chat[u].pc = "addAi" /\ chat[u].session_id = chat[t].session_id)
    /\ \/ /\ ~HistoryAccepts(chat[t].session_id)
          /\ chat' = [chat EXCEPT ![t] = [@ EXCEPT !.pc = "close", !.exc = "ValueError"]]
          /\ UNCHANGED table
       \/ /\ HistoryAccepts(chat[t].session_id)
          /\ table' = Append(table,
                 Row(chat[t].session_id, HumanMessage(chat[t].message), t))
          /\ chat' = [chat EXCEPT ![t] = [@ EXCEPT !.pc = "addAi"]]
       \/ /\ HistoryAccepts(chat[t].session_id)
          /\ chat' = [chat EXCEPT ![t] =
                 [@ EXCEPT !.pc = "close", !.exc = "OperationalError"]]
          /\ UNCHANGED table
    /\ UNCHANGED <<hist, returned, conns>>
    /\ UNCHANGED <<ldVars, aq, qaVars>>

\* the history object is built, then aadd_messages([HumanMessage(message)])
ChatAddUser(t) ==
    /\ chat[t].pc = "addUser"
    /\ \/ /\ ~HistoryAccepts(chat[t].session_id)
          /\ chat' = [chat EXCEPT ![t] = [@ EXCEPT !.pc = "close", !.exc = "ValueError"]]
          /\ UNCHANGED table
       \/ /\ HistoryAccepts(chat[t].session_id)
          /\ table' = Append(table,
                 Row(chat[t].session_id, HumanMessage(chat[t].message), t))
          /\ chat' = [chat EXCEPT ![t] = [@ EXCEPT !.pc = "addAi"]]
       \/ /\ HistoryAccepts(chat[t].session_id)
          /\ chat' = [chat EXCEPT ![t] =
                 [@ EXCEPT !.pc = "close", !.exc = "OperationalError"]]
          /\ UNCHANGED table
    /\ UNCHANGED <<hist, returned, conns>>
    /\ UNCHANGED <<ldVars, aq, qaVars>>

\* a plausible slip: compensation -- a failed assistant write removes the
\* turn's user message
ChatAddAi_compensating(t) ==
    /\ chat[t].pc = "addAi"
    /\ LET ai_response == "Echo: " \o chat[t].message
       IN  \/ /\ table' = Append(table,
                     Row(chat[t].session_id, AIMessage(ai_response), t))
              /\ chat' = [chat EXCEPT ![t] =
                     [@ EXCEPT !.pc = "close", !.response = ai_response]]
           \/ /\ chat' = [chat EXCEPT ![t] =
                     [@ EXCEPT !.pc = "close", !.exc = "OperationalError"]]
              /\ table' = SelectSeq(table, LAMBDA r : r.op # t)
    /\ UNCHANGED <<hist, returned, conns>>
    /\ UNCHANGED <<ldVars, aq, qaVars>>

\* ai_response = f"Echo: {message}", then aadd_messages([AIMessage(ai_response)])
ChatAddAi(t) ==
    /\ chat[t].pc = "addAi"
    /\ LET ai_response == "Echo: " \o chat[t].message
       IN  \/ /\ table' = Append(table,
                     Row(chat[t].session_id, AIMessage(ai_response), t))
              /\ chat' = [chat EXCEPT ![t] =
                     [@ EXCEPT !.pc = "close", !.response = ai_response]]
           \/ /\ chat' = [chat EXCEPT ![t] =
                     [@ EXCEPT !.pc = "close", !.exc = "OperationalError"]]
              /\ UNCHANGED table
    /\ UNCHANGED <<hist, returned, conns>>
    /\ UNCHANGED <<ldVars, aq, qaVars>>

\* a plausible slip: the connection is closed after the body, not in a finally
ChatClose_leaky(t) ==
    /\ chat[t].pc = "close"
    /\ chat' = [chat EXCEPT ![t] = [IdleChat EXCEPT !.pc = "done"]]
    /\ returned' = IF chat[t].exc = "none"
                   THEN returned \cup {chat[t].session_id}
                   ELSE returned
    /\ conns' = IF chat[t].exc = "none" THEN Close(conns, chat[t].conn) ELSE conns
    /\ UNCHANGED <<table, hist>>
    /\ UNCHANGED <<ldVars, aq, qaVars>>

\* leaving the async with: conn.close(); then ChatResponse(session_id, response)
\* or the error goes to the client
ChatClose(t) ==
    /\ chat[t].pc = "close"
    /\ chat' = [chat EXCEPT ![t] = [IdleChat EXCEPT !.pc = "done"]]
    /\ returned' = IF chat[t].exc = "none"
                   THEN returned \cup {chat[t].session_id}
                   ELSE returned
    /\ conns' = Close(conns, chat[t].conn)
    /\ UNCHANGED <<table, hist>>
    /\ UNCHANGED <<ldVars, aq, qaVars>>

\* a request arrives; the handler enters async with get_async_connection()
\* (AsyncConnection.connect may fail), builds the history object, awaits
\* aget_messages, and raises 404 or builds the response
GetRead ==
    /\ hist.pc = "idle"
    /\ \E sid \in ClientIds \ {""} :
          LET opened == [IdleGet EXCEPT !.pc = "close", !.session_id = sid,
                                        !.conn = GetConn,
                                        !.stored = SessionRows(sid)]
          IN  \/ /\ hist' = IdleGet
                 /\ UNCHANGED conns
              \/ /\ ~HistoryAccepts(sid)
                 /\ hist' = [opened EXCEPT !.exc = "ValueError"]
                 /\ conns' = conns \cup {GetConn}
              \/ /\ HistoryAccepts(sid)
                 /\ hist' = [opened EXCEPT !.exc = "OperationalError"]
                 /\ conns' = conns \cup {GetConn}
              \/ /\ HistoryAccepts(sid)
                 /\ conns' = conns \cup {GetConn}
                 /\ LET messages == SessionRows(sid)
                    IN  IF messages = <<>>
                        THEN hist' = [opened EXCEPT !.exc = "HTTP404"]
                        ELSE hist' = [opened EXCEPT
                                         !.messages = MessagesOut(messages)]
    /\ UNCHANGED <<table, chat, returned>>
    /\ UNCHANGED <<ldVars, aq, qaVars>>

\* leaving the async with: conn.close(); the response goes to the client and
\* the next call may arrive
GetClose ==
    /\ hist.pc = "close"
    /\ hist' = IdleGet
    /\ conns' = Close(conns, hist.conn)
    /\ UNCHANGED <<table, chat, returned>>
    /\ UNCHANGED <<ldVars, aq, qaVars>>

(***************************************************************************)
(* document_loader.load_document / chunk_documents                         *)
(*                                                                         *)
(* A text is a sequence of tokens; the splitter turns each token into one  *)
(* chunk, and an empty text into none.                                     *)
(***************************************************************************)

Range(f) == {f[i] : i \in DOMAIN f}

Document(page_content, source) ==
    [page_content |-> page_content, source |-> source]

\* load_pdf: PyPDFLoader(file_path).load(), one Document per page
load_pdf(file_path, file) ==
    IF file.fmt # "pdf" THEN Raised("PdfReadError", <<>>, TRUE)
    ELSE Returned(IF file.pages = <<>> THEN <<>>
                  ELSE [i \in 1..Len(file.pages) |->
                           Document(file.pages[i], file_path)])

\* json.dumps(item, indent=2) of an object, str(item) of anything else
ItemText(item) ==
    IF item.kind = "str" THEN (IF item.val = "" THEN <<>> ELSE <<item.val>>)
    ELSE <<item.val>>

RECURSIVE JoinItems(_)
JoinItems(items) ==
    IF items = <<>> THEN <<>> ELSE ItemText(Head(items)) \o JoinItems(Tail(items))

\* the content load_json_document builds from the parsed value: a list's
\* items joined, an object dumped, anything else str()-ed (a string value is
\* held in items)
JsonContent(file) ==
    CASE file.top = "list" -> JoinItems(file.items)
      [] file.top = "dict" -> <<"{}">>
      [] file.top = "str"  -> JoinItems(file.items)
      [] OTHER             -> <<"7">>

\* load_json_document: always exactly one Document
load_json_document(file_path, file) ==
    IF file.fmt # "json" THEN Raised("JSONDecodeError", <<>>, TRUE)
    ELSE Returned(<<Document(JsonContent(file), file_path)>>)

load_document(file_path, file) ==
    LET suffix == LowerStr(PathSuffix(file_path))
    IN  IF suffix = DotPdf THEN load_pdf(file_path, file)
        ELSE IF suffix = DotJson THEN load_json_document(file_path, file)
        ELSE Raised("ValueError", suffix, FALSE)

\* the chunks of one document; each keeps the document's metadata
SplitDocument(doc) ==
    IF doc.page_content = <<>> THEN <<>>
    ELSE [i \in 1..Len(doc.page_content) |->
             [text |-> doc.page_content[i], source |-> doc.source]]

RECURSIVE chunk_documents(_)
chunk_documents(documents) ==
    IF documents = <<>> THEN <<>>
    ELSE SplitDocument(Head(documents)) \o chunk_documents(Tail(documents))

(***************************************************************************)
(* rag_chain.create_vector_store                                           *)
(*                                                                         *)
(* Chroma.from_documents is called with no collection_name, no client and  *)
(* no persist_directory: the store it returns is the collection with the   *)
(* default name ("langchain") of the in-memory client, which chromadb      *)
(* keeps once per process.  The call gets or creates that collection and   *)
(* adds the documents to it; nothing in the handler deletes from it.       *)
(***************************************************************************)

\* the contents of the default collection after Chroma.from_documents
create_vector_store(coll, documents) == coll \cup Range(documents)

\* what the retriever of a chain built on the store searches over
Retrievable == collection

(***************************************************************************)
(* POST /qa (app/main.py: process_qa)                                      *)
(***************************************************************************)

\* the requests, possibly concurrent
QaOps == {1, 2}

Name(stem, ext) == <<stem>> \o ext

QaQuestionNames ==
    { Name("q", DotJson), Name("q", <<".", "J", "S", "O", "N">>),
      Name("q", <<".", "t", "x", "t">>) }

QaQuestionData ==
    { JsonFile("list", <<JStr("q1"), JObjQ("q2"), JStr("q1")>>),
      JsonFile("list", <<JObj("x")>>),
      JsonFile("list", <<>>) }

QaDocumentNames ==
    { Name("d", DotPdf), Name("d", DotJson), Name("d", <<".", "t", "x", "t">>) }

QaDocumentData ==
    { PdfFile(<< <<"A", "B">>, <<"C">> >>),
      PdfFile(<<>>),
      JsonFile("list", <<>>),
      JsonFile("dict", <<>>) }

\* tempfile.NamedTemporaryFile(delete=False, suffix=suffix).name: a name no
\* other file has
TmpName(r, k, suffix) == <<"/", ToString(r), k>> \o suffix

\* the temporary files request r created
OwnedBy(r) == {p \in DOMAIN tmpfs : p[2] = ToString(r)}

NoFiles == [p \in {} |-> NoFile]

FsWrite(fs, path, file) ==
    [x \in DOMAIN fs \cup {path} |-> IF x = path THEN file ELSE fs[x]]

\* if os.path.exists(path): os.unlink(path)
FsUnlink(fs, path) == [x \in DOMAIN fs \ {path} |-> fs[x]]

IdleQa ==
    [pc |-> "idle", questions_name |-> <<>>, document_name |-> <<>>,
     questions_path |-> <<>>, document_path |-> <<>>, chunks |-> {},
     loop |-> NotCalled, exc |-> "none"]

QaIdle ==
    /\ qa = [r \in QaOps |-> IdleQa]
    /\ tmpfs = NoFiles
    /\ collection = {}

\* the request arrives; save_upload_file_temp(questions_file, suffix):
\* NamedTemporaryFile may fail, or upload_file.read() / tmp.write() may fail
\* after the file was created, and either exception leaves the handler
QaSaveQuestions(r) ==
    /\ qa[r].pc = "idle"
    /\ \E name \in QaQuestionNames, data \in QaQuestionData :
          LET path == TmpName(r, "q", SplitExt(name))
          IN  \/ /\ qa' = [qa EXCEPT ![r] = [IdleQa EXCEPT !.pc = "done"]]
                 /\ UNCHANGED tmpfs
              \/ /\ qa' = [qa EXCEPT ![r] = [IdleQa EXCEPT !.pc = "done"]]
                 /\ tmpfs' = FsWrite(tmpfs, path, Garbage)
              \/ /\ qa' = [qa EXCEPT ![r] =
                        [@ EXCEPT !.pc = "saveDocument", !.questions_name = name,
                                  !.questions_path = path]]
                 /\ tmpfs' = FsWrite(tmpfs, path, data)
    /\ UNCHANGED collection
    /\ UNCHANGED <<ldVars, chatVars, aq>>

\* save_upload_file_temp(document_file, suffix), still before the try
QaSaveDocument(r) ==
    /\ qa[r].pc = "saveDocument"
    /\ \E name \in QaDocumentNames, data \in QaDocumentData :
          LET path == TmpName(r, "d", SplitExt(name))
          IN  \/ /\ qa' = [qa EXCEPT ![r] = [IdleQa EXCEPT !.pc = "done"]]
                 /\ UNCHANGED tmpfs
              \/ /\ qa' = [qa EXCEPT ![r] = [IdleQa EXCEPT !.pc = "done"]]
                 /\ tmpfs' = FsWrite(tmpfs, path, Garbage)
              \/ /\ qa' = [qa EXCEPT ![r] =
                        [@ EXCEPT !.pc = "load", !.document_name = name,
                                  !.document_path = path]]
                 /\ tmpfs' = FsWrite(tmpfs, path, data)
    /\ UNCHANGED collection
    /\ UNCHANGED <<ldVars, chatVars, aq>>

\* the try block up to the first await: load_questions, load_document,
\* chunk_documents, create_vector_store (whose embedding call may fail) and
\* create_qa_chain
QaLoad(r) ==
    /\ qa[r].pc = "load"
    /\ LET f         == qa[r]
           questions == load_questions(f.questions_path, tmpfs[f.questions_path])
           documents == load_document(f.document_path, tmpfs[f.document_path])
           chunks    == chunk_documents(documents.val)
           raise(e)  == [f EXCEPT !.pc = "finally", !.exc = e]
       IN  IF questions.exc # "none"
           THEN qa' = [qa EXCEPT ![r] = raise(questions.exc)] /\ UNCHANGED collection
           ELSE IF questions.val = <<>>
           THEN qa' = [qa EXCEPT ![r] = raise("HTTP400")] /\ UNCHANGED collection
           ELSE IF documents.exc # "none"
           THEN qa' = [qa EXCEPT ![r] = raise(documents.exc)] /\ UNCHANGED collection
           ELSE IF documents.val = <<>>
           THEN qa' = [qa EXCEPT ![r] = raise("HTTP400")] /\ UNCHANGED collection
           ELSE \/ /\ collection' = create_vector_store(collection, chunks)
                   /\ qa' = [qa EXCEPT ![r] =
                          [f EXCEPT !.pc = "answer", !.chunks = Range(chunks),
                                    !.loop = answer_questions_start(questions.val)]]
                \/ /\ qa' = [qa EXCEPT ![r] = raise("UpstreamError")]
                   /\ UNCHANGED collection
    /\ UNCHANGED tmpfs
    /\ UNCHANGED <<ldVars, chatVars, aq>>

\* answers = await answer_questions(qa_chain, questions): one awaited
\* invocation; after the last one QAResponse(answers) is returned
QaAnswer(r) ==
    /\ qa[r].pc = "answer"
    /\ \E result \in ChainResults :
          LET loop == answer_questions_step(qa[r].loop, result)
          IN  qa' = [qa EXCEPT ![r] =
                  [@ EXCEPT !.loop = loop,
                            !.pc = IF loop.status = "running"
                                   THEN "answer" ELSE "finally",
                            !.exc = IF loop.status = "raised"
                                    THEN "UpstreamError" ELSE "none"]]
    /\ UNCHANGED <<tmpfs, collection>>
    /\ UNCHANGED <<ldVars, chatVars, aq>>

\* the finally block; then the response or the error goes to the client
QaFinally(r) ==
    /\ qa[r].pc = "finally"
    /\ tmpfs' = FsUnlink(FsUnlink(tmpfs, qa[r].questions_path),
                         qa[r].document_path)
    /\ qa' = [qa EXCEPT ![r] = [IdleQa EXCEPT !.pc = "done"]]
    /\ UNCHANGED collection
    /\ UNCHANGED <<ldVars, chatVars, aq>>

(***************************************************************************)
(* Specifications                                                          *)
(***************************************************************************)

LdInit ==
    /\ ldPath \in LdPaths
    /\ ldFile \in LdFiles
    /\ ldOut = NotRun
    /\ ChatIdle
    /\ AqIdle
    /\ QaIdle

LdNext == LdCall

SpecLoad == LdInit /\ [][LdNext]_vars

AqInit ==
    /\ aq \in {answer_questions_start(qs) : qs \in SeqsUpTo(QVals, MaxQ)}
    /\ LdIdle
    /\ ChatIdle
    /\ QaIdle

AqNext == AqInvoke

SpecAnswer == AqInit /\ [][AqNext]_vars

ChatInit ==
    /\ ChatIdle
    /\ LdIdle
    /\ AqIdle
    /\ QaIdle

ChatNext ==
    \/ \E t \in ChatOps :
          \/ ChatReceive(t)
          \/ ChatAddUser(t)
          \/ ChatAddAi(t)
          \/ ChatClose(t)
    \/ GetRead
    \/ GetClose

SpecChat == ChatInit /\ [][ChatNext]_vars

QaInit ==
    /\ QaIdle
    /\ LdIdle
    /\ AqIdle
    /\ ChatIdle

QaNext ==
    \E r \in QaOps :
        \/ QaSaveQuestions(r)
        \/ QaSaveDocument(r)
        \/ QaLoad(r)
        \/ QaAnswer(r)
        \/ QaFinally(r)

SpecQa == QaInit /\ [][QaNext]_vars

(***************************************************************************)
(* Claims about the question loader (checked under SpecLoad)               *)
(***************************************************************************)

\* the path's last component ends, whatever the case, in ext (a dot and
\* letters) after a non-empty stem
HasExt(p, ext) ==
    LET name == PathName(p)
        n    == Len(name)
    IN  /\ n > Len(ext)
        /\ LowerStr(SubSeq(name, n - Len(ext) + 1, n)) = ext

HasJsonExt(p) == HasExt(p, DotJson)

IsQuestionItem(item) ==
    item.kind = "str" \/ (item.kind = "dict" /\ item.hasq)

ExpectedQuestions(items) ==
    LET kept == SelectSeq(items, IsQuestionItem)
    IN  IF kept = <<>> THEN <<>> ELSE [i \in 1..Len(kept) |-> kept[i].val]

\* C9: for a .json file holding a list, load_questions returns, in input
\* order, every string item and the "question" value of every object item
\* that has the key, skipping the rest without error; for any other
\* top-level value it returns the empty sequence; a list of strings comes
\* back unchanged.
C9_LoadQuestionsSelects ==
    (ldOut # NotRun /\ HasJsonExt(ldPath) /\ ldFile.fmt = "json") =>
        /\ ldOut.exc = "none"
        /\ ldFile.top = "list" => ldOut.val = ExpectedQuestions(ldFile.items)
        /\ ldFile.top # "list" => ldOut.val = <<>>
        /\ (ldFile.top = "list"
              /\ \A i \in 1..Len(ldFile.items) : ldFile.items[i].kind = "str")
            => /\ Len(ldOut.val) = Len(ldFile.items)
               /\ \A i \in 1..Len(ldFile.items) :
                      ldOut.val[i] = ldFile.items[i].val

\* a mixed list: a string, an object without the key, an object with it
C9_Witness ==
    /\ ldOut # NotRun
    /\ HasJsonExt(ldPath)
    /\ ldFile = JsonFile("list", <<JStr("q2"), JObj("x"), JObjQ("q1")>>)
    /\ ldOut.val = <<"q2", "q1">>

RowsOf(t) == SelectSeq(table, LAMBDA r : r.op = t)

\* a turn that is about to answer 200
Succeeding(t) == chat[t].pc = "close" /\ chat[t].exc = "none"

\* C5: within one POST /chat turn the user message is recorded before the
\* assistant message: every stored assistant row is preceded, in its session,
\* by the same turn's user row, and a turn that answers 200 has added exactly
\* the pair (user: message, assistant: "Echo: " + message), in that order.
C5_UserBeforeAssistant ==
    /\ \A j \in 1..Len(table) :
          table[j].type = "ai" =>
              \E i \in 1..(j - 1) :
                  /\ table[i].op = table[j].op
                  /\ table[i].type = "human"
                  /\ table[i].session_id = table[j].session_id
                  /\ table[j].content = "Echo: " \o table[i].content
    /\ \A t \in ChatOps :
          Succeeding(t) =>
              RowsOf(t) = << [session_id |-> chat[t].session_id, type |-> "human",
                              content |-> chat[t].message, op |-> t],
                             [session_id |-> chat[t].session_id, type |-> "ai",
                              content |-> chat[t].response, op |-> t] >>

\* a turn answers 200 on a session another turn has written to as well
C5_Witness ==
    \E t \in ChatOps :
        /\ Succeeding(t)
        /\ chat[t].response = "Echo: " \o chat[t].message
        /\ Len(SessionRows(chat[t].session_id)) = 4

C7_Original ==
    (hist.pc = "close" /\ hist.exc # "OperationalError") =>
        /\ Status(hist) = 404 <=> hist.stored = <<>>
        /\ hist.stored # <<>> =>
              /\ Status(hist) = 200
              /\ Len(hist.messages) = Len(hist.stored)
              /\ \A i \in 1..Len(hist.stored) :
                    /\ hist.messages[i].content = hist.stored[i].content
                    /\ hist.messages[i].role = "user"
                          <=> hist.stored[i].type = "human"

\* C12: there is no per-session lock.  Whenever a turn is between its two
\* writes (its user message stored, its assistant message not yet), any other
\* turn that has arrived for the same session can store its user message
\* right then, so the order user1, user2, assistant1, assistant2 is reachable.
C12_NoSessionLock ==
    \A t \in ChatOps : \A u \in ChatOps \ {t} :
        (/\ chat[t].pc = "addAi"
         /\ chat[u].pc = "addUser"
         /\ chat[u].session_id = chat[t].session_id)
        => ENABLED (ChatAddUser(u) /\ table' # table)

\* one session holds user, user, assistant, assistant of two turns, both of
\* which succeeded
C12_Witness ==
    \E t \in ChatOps : \E u \in ChatOps \ {t} :
        /\ Succeeding(t) /\ Succeeding(u)
        /\ chat[t].session_id = chat[u].session_id
        /\ LET rows == SessionRows(chat[t].session_id)
           IN  /\ Len(rows) = 4
               /\ [i \in 1..4 |-> rows[i].op] = <<t, u, t, u>>
               /\ [i \in 1..4 |-> rows[i].type] = <<"human", "human", "ai", "ai">>

\* the user row of turn t, as stored
UserRow(t) == Row(chat[t].session_id, HumanMessage(chat[t].message), t)

\* C13: a turn whose assistant write fails after its user write succeeded
\* fails (no 200) and leaves exactly its user message stored; a turn whose
\* user write fails stores nothing; and no step, then or later, removes or
\* completes what a failed turn has stored.
C13_PartialWriteStays ==
    [][\A t \in ChatOps :
          /\ (chat[t].pc = "addAi" /\ chat'[t].exc # "none")
                => /\ table' = table
                   /\ RowsOf(t)' = <<UserRow(t)>>
                   /\ chat'[t].pc = "close"
                   /\ Status(chat'[t]) # 200
          /\ (chat[t].pc = "addUser" /\ chat'[t].exc # "none")
                => /\ table' = table
                   /\ RowsOf(t)' = <<>>
                   /\ chat'[t].pc = "close"
                   /\ Status(chat'[t]) # 200
          /\ (chat[t].pc \in {"close", "done"})
                => RowsOf(t)' = RowsOf(t)]_vars

\* a turn has failed at its assistant write: it is about to answer an error
\* and its user message is the only row it has stored
C13_Witness ==
    \E t \in ChatOps :
        /\ chat[t].pc = "close"
        /\ chat[t].exc = "OperationalError"
        /\ RowsOf(t) = <<UserRow(t)>>
        /\ SessionRows(chat[t].session_id)[Len(SessionRows(chat[t].session_id))]
              = UserRow(t)

\* a POST /chat turn that is inside its async with block
InChat(t) == chat[t].pc \in {"addUser", "addAi", "close"}

\* the GET call is inside its async with block
InGet == hist.pc = "close"

\* C15: every chat operation in progress holds an open connection of its
\* own, an operation that has not started or has ended (however it ended)
\* holds none, and no connection is open that is not held by an operation in
\* progress.
C15_ConnectionPerOperation ==
    /\ \A t \in ChatOps :
          IF InChat(t)
          THEN chat[t].conn # NoConn /\ chat[t].conn \in conns
          ELSE chat[t].conn = NoConn
    /\ IF InGet
       THEN hist.conn # NoConn /\ hist.conn \in conns
       ELSE hist.conn = NoConn
    /\ \A t \in ChatOps : \A u \in ChatOps \ {t} :
          (InChat(t) /\ InChat(u)) => chat[t].conn # chat[u].conn
    /\ \A t \in ChatOps : (InChat(t) /\ InGet) => chat[t].conn # hist.conn
    /\ conns = {chat[t].conn : t \in {u \in ChatOps : InChat(u)}}
                  \cup (IF InGet THEN {hist.conn} ELSE {})

\* a turn has ended after its assistant write failed (only its user message
\* is stored), no operation is in progress, and no connection is open
C15_Witness ==
    /\ \E t \in ChatOps : chat[t].pc = "done" /\ Len(RowsOf(t)) = 1
    /\ \A t \in ChatOps : ~InChat(t)
    /\ ~InGet
    /\ conns = {}

(***************************************************************************)
(* Claims about answer_questions (checked under SpecAnswer)                *)
(***************************************************************************)

\* the position of the last occurrence of question q
LastOccurrence(questions, q) ==
    Max({i \in 1..Len(questions) : questions[i] = q})

\* C8: answer_questions returns a mapping whose keys are exactly the distinct
\* questions of the input; each key holds the answer produced for the
\* question's last occurrence, so there are as many entries as distinct
\* questions.
C8_LastWriteWins ==
    aq.status = "returned" =>
        /\ DOMAIN aq.answers = Range(aq.questions)
        /\ Cardinality(DOMAIN aq.answers) = Cardinality(Range(aq.questions))
        /\ Len(aq.calls) = Len(aq.questions)
        /\ \A q \in Range(aq.questions) :
              LET last == LastOccurrence(aq.questions, q)
              IN  /\ aq.calls[last].question = q
                  /\ aq.answers[q] = aq.calls[last].result.text

\* q1 asked twice with different answers, q2 in between
C8_Witness ==
    /\ aq.status = "returned"
    /\ aq.questions = <<"q1", "q2", "q1">>
    /\ aq.calls[1].result.text = "a1"
    /\ aq.calls[3].result.text = "a2"
    /\ aq.answers["q1"] = "a2"
    /\ Cardinality(DOMAIN aq.answers) = 2

\* the fallback answer the specification names
Fallback == "Unable to find answer"

\* C11: when the chain produces no usable text for a question (an empty
\* answer), the returned mapping holds the fallback string for that question,
\* never the empty answer.
C11_Original ==
    aq.status = "returned" =>
        \A q \in DOMAIN aq.answers :
            /\ aq.answers[q] # ""
            /\ aq.calls[LastOccurrence(aq.questions, q)].result.text = ""
                  => aq.answers[q] = Fallback

\* C14: the questions are answered one at a time in input order with no
\* retry: the k-th invocation made is for the k-th question, the invocation
\* awaited is the one after those completed, a failed invocation is the last
\* one made and ends the call with the failure (nothing is returned), and a
\* call that returns has made exactly one successful invocation per
\* occurrence.
C14_SequentialNoRetry ==
    aq.status \in {"running", "returned", "raised"} =>
        /\ Len(aq.calls) <= Len(aq.questions)
        /\ \A k \in 1..Len(aq.calls) :
              /\ aq.calls[k].question = aq.questions[k]
              /\ aq.calls[k].result.raised
                    => (k = Len(aq.calls) /\ aq.status = "raised")
        /\ aq.status = "running" => aq.i = Len(aq.calls) + 1
        /\ aq.status = "returned" => Len(aq.calls) = Len(aq.questions)
        /\ aq.status = "raised"
              => /\ aq.calls # <<>>
                 /\ aq.calls[Len(aq.calls)].result.raised
                 /\ ~ ENABLED AqInvoke

\* the second of three questions failed: the third was never invoked
C14_Witness ==
    /\ aq.status = "raised"
    /\ Len(aq.questions) = 3
    /\ Len(aq.calls) = 2
    /\ ~aq.calls[1].result.raised
    /\ aq.calls[2].result.raised

(***************************************************************************)
(* Claims about POST /qa (checked under SpecQa)                            *)
(***************************************************************************)

\* C1: when a POST /qa request has ended, however it ended, no temporary
\* file it created exists.
C1_Original ==
    \A r \in QaOps : qa[r].pc = "done" => OwnedBy(r) = {}

\* C2: while a request's questions are answered, the chunks its chain can
\* retrieve are exactly the chunks of its own document.
C2_Original ==
    \A r \in QaOps : qa[r].pc = "answer" => Retrievable = qa[r].chunks

\* C3: a request whose document is neither .pdf nor .json, or whose questions
\* file is not .json, is answered with a 4xx status.
C3_Original ==
    \A r \in QaOps :
        (/\ qa[r].pc = "finally"
         /\ \/ ~HasJsonExt(qa[r].questions_name)
            \/ ~(HasJsonExt(qa[r].document_name)
                   \/ HasExt(qa[r].document_name, DotPdf)))
        => Status(qa[r]) \in 400..499

\* no text in any of the documents
NoContent(documents) ==
    \A i \in 1..Len(documents) : documents[i].page_content = <<>>

\* C4: a request whose questions file yields no question, or whose document
\* yields no content, is answered 400.
C4_Original ==
    \A r \in QaOps :
        qa[r].pc = "finally" =>
            LET questions == load_questions(qa[r].questions_path,
                                            tmpfs[qa[r].questions_path])
                documents == load_document(qa[r].document_path,
                                           tmpfs[qa[r].document_path])
            IN  /\ (questions.exc = "none" /\ questions.val = <<>>)
                      => Status(qa[r]) = 400
                /\ (/\ questions.exc = "none"
                    /\ questions.val # <<>>
                    /\ documents.exc = "none"
                    /\ NoContent(documents.val))
                      => Status(qa[r]) = 400

============================================================================
